---- MODULE Spec2Model ----
(***************************************************************************)
(* A model of the Kml class of kml.py: the placemark store, the scan of a  *)
(* folder for files with GPS tags, the stable (Folder, Latitude) sort, the *)
(* greedy minimum-distance filter, the construction of the KML document    *)
(* and the write of the file; of ScanFolder of the older class of KML.py;  *)
(* and of the driver script BuildKml.py.                                   *)
(*                                                                         *)
(* Python objects are modelled with their identity.  Every placemark is a  *)
(* dict created by _add_placemark; heap[id] is the dict with identity id   *)
(* and a list of placemarks is a sequence of identities.  The class        *)
(* attribute Kml._placemark_list is one list object shared by every        *)
(* instance that has not yet been given an attribute of its own; the       *)
(* assignment in _reorder_placemarks gives the instance its own list,      *)
(* which still refers to the same dicts.                                   *)
(*                                                                         *)
(* Strings are sequences of code points.  Latitudes and longitudes are     *)
(* integers counting 1/10000 of a degree.  Distances and thresholds are    *)
(* whole metres: for an integer threshold T and a distance d,              *)
(* d < T exactly when floor(d) < T.                                        *)
(***************************************************************************)
EXTENDS Integers, Sequences, FiniteSets, TLC

\* ------------------------------------------------------------------ bounds

\* Number of placemark dicts ever created.
MaxPlacemarks == 3

\* Number of Kml instances ever constructed.
MaxInstances == 2

\* Number of files the globs of one scan find.
MaxFiles == 2

\* Number of folders the driver scans.
MaxFolders == 2

\* ------------------------------------------------------------------ inputs

\* "/A", "/B"
Folders == { <<47, 65>>, <<47, 66>> }

\* "/p/f"
NamedFile == <<47, 112, 47, 102>>

\* <<latitude, longitude>>: (45.5, -73.5), (45.5, -73.4999) and
\* (45.5001, -73.4999).  The first two are 7 m apart, the last two 11 m and
\* the first and the last 13 m.
Coordinates ==
    { <<455000, -735000>>, <<455000, -734999>>, <<455001, -734999>> }

\* Thresholds in metres.
Thresholds == { 0, 13 }

\* A name without a directory, "f", a name in the root directory, "/f", a
\* name with the control character U+0001 and a name with the lone surrogate
\* U+D800.
BareFile == <<102>>
RootFile == <<47, 102>>
ControlCharFile == <<47, 112, 47, 1>>
SurrogateFile == <<47, 112, 47, 55296>>

TextNames == { <<>>, NamedFile, BareFile, RootFile, ControlCharFile, SurrogateFile }

\* EXIF tags as exifread.process_file returns them, a ratio being
\* <<num, den>>: 45 deg 30' 0" N, 73 deg 30' 0" W; 45 deg 30.006' N,
\* 73 deg 29.994' W; the same with a denominator 0; and no GPS tag.
TagsMontreal ==
    [ GPSLatitude |-> << <<45, 1>>, <<30, 1>>, <<0, 1>> >>, GPSLatitudeRef |-> 78,
      GPSLongitude |-> << <<73, 1>>, <<30, 1>>, <<0, 1>> >>, GPSLongitudeRef |-> 87 ]

TagsNearby ==
    [ GPSLatitude |-> << <<45, 1>>, <<30006, 1000>>, <<0, 1>> >>, GPSLatitudeRef |-> 78,
      GPSLongitude |-> << <<73, 1>>, <<29994, 1000>>, <<0, 1>> >>, GPSLongitudeRef |-> 87 ]

TagsZeroDen ==
    [ GPSLatitude |-> << <<45, 1>>, <<30, 1>>, <<0, 0>> >>, GPSLatitudeRef |-> 78,
      GPSLongitude |-> << <<73, 1>>, <<30, 1>>, <<0, 1>> >>, GPSLongitudeRef |-> 87 ]

TagsNoGps == <<>>

\* The files a folder can hold: "a" and "b" with GPS tags, "c" without, "d"
\* that cannot be opened, "e" with a denominator 0, and "._a", a file with
\* GPS tags whose name begins with "._".
ScanFiles ==
    { [ name |-> <<97>>, read |-> "ok", tags |-> TagsMontreal ],
      [ name |-> <<98>>, read |-> "ok", tags |-> TagsNearby ],
      [ name |-> <<99>>, read |-> "ok", tags |-> TagsNoGps ],
      [ name |-> <<100>>, read |-> "OSError", tags |-> TagsNoGps ],
      [ name |-> <<101>>, read |-> "ok", tags |-> TagsZeroDen ],
      [ name |-> <<46, 95, 97>>, read |-> "ok", tags |-> TagsMontreal ] }

\* What the globs of a scan can find: files of distinct names, in any order.
FoundLists ==
    { found \in UNION { [ 1..n -> ScanFiles ] : n \in 0..MaxFiles } :
          \A i, j \in 1..Len(found) : i # j => found[i] # found[j] }

\* Output names given to the driver: none, "o", "o.kml", "o.KML", "o.txt",
\* ".kml" and "d.x/o"; and what the file dialog answers: nothing or "o".
OutputNames ==
    { <<>>, <<111>>, <<111, 46, 107, 109, 108>>, <<111, 46, 75, 77, 76>>,
      <<111, 46, 116, 120, 116>>, <<46, 107, 109, 108>>, <<100, 46, 120, 47, 111>> }

DialogNames == { <<>>, <<111>> }

\* What open(path, "w") followed by write(text) can do.
WriteOutcomes == { "ok", "FileNotFoundError", "PermissionError", "OSError" }

VARIABLES
    heap,                  \* Seq of placemark dicts; the index is the identity
    class_placemark_list,  \* Kml._placemark_list, the class attribute
    instances,             \* Seq of constructed Kml objects
    last,                  \* the last call and what it returned or raised
    driver                 \* the driver script: where it is, and its variables

vars == <<heap, class_placemark_list, instances, last, driver>>

\* ------------------------------------------------------------------ helpers

NoCall ==
    [ op |-> "none", self |-> 0, raised |-> "none", export_count |-> -1,
      saved |-> "none", before |-> <<>>, tree |-> <<>>, pretty |-> FALSE,
      write |-> "none", written |-> FALSE,
      again |-> FALSE, flags_before |-> <<>>, count_before |-> -1,
      nb_files |-> -1, folder |-> <<>>, found |-> <<>> ]

\* self._placemark_list: the instance attribute when there is one, else the
\* class attribute.
placemark_list(self) ==
    IF instances[self].has_own_list
    THEN instances[self].own_placemark_list
    ELSE class_placemark_list

\* self.min_distance_between_placemarks_in_meters
min_distance_between_placemarks_in_meters(self) ==
    instances[self].min_distance

\* ------------------------------------------------------------------ distance

\* The values of _distance_between_placemarks (haversine, radius 6378.137 km,
\* result in metres) at the coordinates of the model, rounded down to whole
\* metres.  Keys are <<lat1, lon1, lat2, lon2>>.
HaversineMetres ==
    <<455000, -735000, 455000, -735000>> :> 0 @@
    <<455000, -735000, 455000, -734999>> :> 7 @@
    <<455000, -735000, 455001, -735000>> :> 11 @@
    <<455000, -735000, 455001, -734999>> :> 13 @@
    <<455000, -734999, 455000, -735000>> :> 7 @@
    <<455000, -734999, 455000, -734999>> :> 0 @@
    <<455000, -734999, 455001, -735000>> :> 13 @@
    <<455000, -734999, 455001, -734999>> :> 11 @@
    <<455001, -735000, 455000, -735000>> :> 11 @@
    <<455001, -735000, 455000, -734999>> :> 13 @@
    <<455001, -735000, 455001, -735000>> :> 0 @@
    <<455001, -735000, 455001, -734999>> :> 7 @@
    <<455001, -734999, 455000, -735000>> :> 13 @@
    <<455001, -734999, 455000, -734999>> :> 11 @@
    <<455001, -734999, 455001, -735000>> :> 7 @@
    <<455001, -734999, 455001, -734999>> :> 0

\* Variant of distance_between_placemarks: the arguments of atan2 exchanged,
\* c = 2 * atan2(sqrt(1 - a), sqrt(a)), which measures from the antipode.
distance_between_placemarks_atan2_swapped(lat1, lon1, lat2, lon2) ==
    20037508 - HaversineMetres[<<lat1, lon1, lat2, lon2>>]

distance_between_placemarks(lat1, lon1, lat2, lon2) ==
    HaversineMetres[<<lat1, lon1, lat2, lon2>>]

\* ------------------------------------------------------------------ filter

\* Variant of is_suppressed: <= for <.
is_suppressed_le(h, id, kept_coords, min_distance) ==
    \E k \in 1..Len(kept_coords) :
        distance_between_placemarks(
            h[id].Latitude, h[id].Longitude,
            h[kept_coords[k]].Latitude, h[kept_coords[k]].Longitude)
        <= min_distance

\* Variant of is_suppressed: the comparison is with the placemark kept last
\* only.
is_suppressed_previous_only(h, id, kept_coords, min_distance) ==
    /\ kept_coords # <<>>
    /\ distance_between_placemarks(
           h[id].Latitude, h[id].Longitude,
           h[kept_coords[Len(kept_coords)]].Latitude,
           h[kept_coords[Len(kept_coords)]].Longitude)
       < min_distance

\* The inner loop of _filter_placemarks: my_coord["Export"] is set to False,
\* and the loop left, at the first kept placemark closer than the threshold.
is_suppressed(h, id, kept_coords, min_distance) ==
    \E k \in 1..Len(kept_coords) :
        distance_between_placemarks(
            h[id].Latitude, h[id].Longitude,
            h[kept_coords[k]].Latitude, h[kept_coords[k]].Longitude)
        < min_distance

\* Variant of initial_kept_coords: kept_coords = list(self._placemark_list)
initial_kept_coords_all(list) == list

\* kept_coords = []
initial_kept_coords(list) == <<>>

\* Variant of kept_after: every placemark is appended, exported or not.
kept_after_always(kept_coords, id, export) == Append(kept_coords, id)

\* if my_coord["Export"] is True: kept_coords.append(my_coord)
kept_after(kept_coords, id, export) ==
    IF export THEN Append(kept_coords, id) ELSE kept_coords

\* Variant of export_before_loop: my_coord.setdefault("Export", True), the
\* value of an earlier run is kept.
export_before_loop_setdefault(h, id) ==
    IF h[id].Export = "unset" THEN "True" ELSE h[id].Export

\* my_coord["Export"] = True, before the inner loop.
export_before_loop(h, id) == "True"

\* The outer loop of _filter_placemarks from position k on: the heap with the
\* Export keys written, and export_count.
RECURSIVE filter_loop(_, _, _, _, _, _)
filter_loop(list, k, kept_coords, export_count, h, min_distance) ==
    IF k > Len(list)
    THEN [ heap |-> h, export_count |-> export_count ]
    ELSE LET id == list[k]
             export == /\ export_before_loop(h, id) = "True"
                       /\ ~ is_suppressed(h, id, kept_coords, min_distance)
         IN  filter_loop(list, k + 1,
                         kept_after(kept_coords, id, export),
                         IF export THEN export_count + 1 ELSE export_count,
                         [h EXCEPT ![id].Export = IF export THEN "True" ELSE "False"],
                         min_distance)

\* The Export values of the dicts of a list, in list order.
export_flags(list, h) == [ k \in 1..Len(list) |-> h[list[k]].Export ]

\* _filter_placemarks on a list, a heap and a threshold.
filter_placemarks_on(list, h, min_distance) ==
    filter_loop(list, 1, initial_kept_coords(list), 0, h, min_distance)

\* ------------------------------------------------------------------ sort

\* a < b on strings (sequences of code points).
RECURSIVE str_less(_, _)
str_less(a, b) ==
    IF b = <<>> THEN FALSE
    ELSE IF a = <<>> THEN TRUE
    ELSE IF Head(a) = Head(b) THEN str_less(Tail(a), Tail(b))
    ELSE Head(a) < Head(b)

\* Variant of key_less: the key is the latitude alone.
key_less_latitude_only(h, a, b) == h[a].Latitude < h[b].Latitude

\* key(a) < key(b) for the key (i["Folder"], i["Latitude"]): tuples compare
\* by their first differing component.
key_less(h, a, b) ==
    \/ str_less(h[a].Folder, h[b].Folder)
    \/ /\ h[a].Folder = h[b].Folder
       /\ h[a].Latitude < h[b].Latitude

\* Variant of insert_sorted: insertion before the elements of equal key, which
\* is not stable.
RECURSIVE insert_before_equal(_, _, _)
insert_before_equal(h, sorted_list, id) ==
    IF sorted_list = <<>> THEN <<id>>
    ELSE IF ~ key_less(h, Head(sorted_list), id)
         THEN <<id>> \o sorted_list
         ELSE <<Head(sorted_list)>> \o insert_before_equal(h, Tail(sorted_list), id)

\* Variant of insert_sorted: one element for each key, as in a dict keyed by
\* (Folder, Latitude); an id whose key the list has already is left out.
RECURSIVE insert_sorted_unique_keys(_, _, _)
insert_sorted_unique_keys(h, sorted_list, id) ==
    IF sorted_list = <<>> THEN <<id>>
    ELSE IF key_less(h, id, Head(sorted_list))
         THEN <<id>> \o sorted_list
         ELSE IF ~ key_less(h, Head(sorted_list), id)
         THEN sorted_list
         ELSE <<Head(sorted_list)>> \o insert_sorted_unique_keys(h, Tail(sorted_list), id)

\* id inserted into a sorted list after every element whose key is not
\* greater: elements of equal key keep their order of arrival.
RECURSIVE insert_sorted(_, _, _)
insert_sorted(h, sorted_list, id) ==
    IF sorted_list = <<>> THEN <<id>>
    ELSE IF key_less(h, id, Head(sorted_list))
         THEN <<id>> \o sorted_list
         ELSE <<Head(sorted_list)>> \o insert_sorted(h, Tail(sorted_list), id)

\* sorted(list, key=...): a new list, stable.
RECURSIVE sorted(_, _)
sorted(h, list) ==
    IF list = <<>> THEN <<>>
    ELSE insert_sorted(h, sorted(h, SubSeq(list, 1, Len(list) - 1)), list[Len(list)])

\* ------------------------------------------------------------------ text

\* The decimal digits of a natural number.
RECURSIVE digits(_)
digits(n) ==
    IF n < 10 THEN <<48 + n>> ELSE digits(n \div 10) \o <<48 + (n % 10)>>

\* The digits of a fraction without its trailing zeros, one digit at least.
RECURSIVE strip_zeros(_)
strip_zeros(ds) ==
    IF Len(ds) > 1 /\ ds[Len(ds)] = 48
    THEN strip_zeros(SubSeq(ds, 1, Len(ds) - 1))
    ELSE ds

\* str(x) for the float x = v / 10000: the shortest decimal text that reads
\* back as x, "45.5" for 455000 and "-73.4999" for -734999.
float_str(v) ==
    LET a == IF v < 0 THEN -v ELSE v
        f == a % 10000
        frac == << 48 + (f \div 1000), 48 + ((f \div 100) % 10),
                   48 + ((f \div 10) % 10), 48 + (f % 10) >>
    IN  (IF v < 0 THEN <<45>> ELSE <<>>)
        \o digits(a \div 10000) \o <<46>> \o strip_zeros(frac)

\* The position of the last "/" of p, 0 when there is none.
RECURSIVE rfind_slash(_)
rfind_slash(p) ==
    IF p = <<>> THEN 0
    ELSE IF p[Len(p)] = 47 THEN Len(p)
    ELSE rfind_slash(SubSeq(p, 1, Len(p) - 1))

\* head.rstrip("/")
RECURSIVE rstrip_slash(_)
rstrip_slash(p) ==
    IF p # <<>> /\ p[Len(p)] = 47
    THEN rstrip_slash(SubSeq(p, 1, Len(p) - 1))
    ELSE p

\* os.path.split(p) on a POSIX path: <<head, tail>>.
path_split(p) ==
    LET i == rfind_slash(p)
        head == SubSeq(p, 1, i)
        tail == SubSeq(p, i + 1, Len(p))
    IN  << IF rstrip_slash(head) = <<>> THEN head ELSE rstrip_slash(head), tail >>

\* ------------------------------------------------------------------ document

\* Variant of has_name_children: name and description for every Placemark.
has_name_children_always(my_coord) == TRUE

\* if my_coord["Name"] != "":
has_name_children(my_coord) == my_coord.Name # <<>>

\* Variant of coordinates_text: latitude first.
coordinates_text_latitude_first(my_coord) ==
    float_str(my_coord.Latitude) \o <<44>> \o float_str(my_coord.Longitude)

\* str(my_coord["Longitude"]) + "," + str(my_coord["Latitude"])
coordinates_text(my_coord) ==
    float_str(my_coord.Longitude) \o <<44>> \o float_str(my_coord.Latitude)

\* The Placemark element of an exported dict: its children in document
\* order, name and description when Name is not empty, and the coordinates
\* text of its Point.
placemark_element(my_coord) ==
    [ has_name |-> has_name_children(my_coord),
      name |-> IF has_name_children(my_coord)
               THEN path_split(my_coord.Name)[2] ELSE <<>>,
      description |-> IF has_name_children(my_coord)
                      THEN path_split(my_coord.Name)[1] ELSE <<>>,
      coordinates |-> coordinates_text(my_coord),
      children |-> IF has_name_children(my_coord)
                   THEN << "name", "description", "Point" >>
                   ELSE << "Point" >> ]

\* Variant of emits_placemark: a Placemark for every dict, whatever its flag.
emits_placemark_always(my_coord) == TRUE

\* if my_coord["Export"]:
emits_placemark(my_coord) == my_coord.Export = "True"

\* Variant of opens_folder: the folder check is made for exported placemarks
\* only.
opens_folder_if_exported(my_coord, folder_name_text) ==
    /\ my_coord.Export = "True"
    /\ my_coord.Folder # folder_name_text

\* if my_coord["Folder"] != folder_name.text:
opens_folder(my_coord, folder_name_text) == my_coord.Folder # folder_name_text

\* The loop of _get_kml_string from position k on.  folders is the sequence
\* of Folder elements of the Document so far; the last one is the current
\* folder, and its name is folder_name.text.
RECURSIVE build_folders(_, _, _, _)
build_folders(h, list, k, folders) ==
    IF k > Len(list)
    THEN folders
    ELSE LET my_coord == h[list[k]]
             opened ==
                 IF opens_folder(my_coord, folders[Len(folders)].name)
                 THEN Append(folders, [ name |-> my_coord.Folder, children |-> <<>> ])
                 ELSE folders
             filled ==
                 IF emits_placemark(my_coord)
                 THEN [ opened EXCEPT ![Len(opened)].children =
                            Append(@, placemark_element(my_coord)) ]
                 ELSE opened
         IN  build_folders(h, list, k + 1, filled)

\* The Folder elements _get_kml_string builds from a list that is not empty.
document_folders(h, list) ==
    build_folders(h, list, 1,
                  << [ name |-> h[list[1]].Folder, children |-> <<>> ] >>)

\* ------------------------------------------------------------------ exceptions

\* The classes an exception is an instance of.
exception_classes(exc) ==
    CASE exc = "FileNotFoundError" -> { "FileNotFoundError", "OSError", "Exception" }
      [] exc = "PermissionError" -> { "PermissionError", "OSError", "Exception" }
      [] exc = "OSError" -> { "OSError", "Exception" }
      [] exc = "IndexError" -> { "IndexError", "LookupError", "Exception" }
      [] exc = "UnicodeEncodeError" -> { "UnicodeEncodeError", "UnicodeError", "ValueError", "Exception" }
      [] exc = "ExpatError" -> { "ExpatError", "Exception" }
      [] exc = "KeyError" -> { "KeyError", "LookupError", "Exception" }
      [] exc = "ZeroDivisionError" -> { "ZeroDivisionError", "ArithmeticError", "Exception" }
      [] exc = "NameError" -> { "NameError", "Exception" }
      [] OTHER -> {}

\* Variant of save_catches: except PermissionError.
save_catches_permission_only(exc) == "PermissionError" \in exception_classes(exc)

\* except (IOError, OSError) in save_kml_file; IOError is OSError.
save_catches(exc) == "OSError" \in exception_classes(exc)

\* except (ValueError, TypeError) in _get_kml_string.
pretty_catches(exc) ==
    exception_classes(exc) \cap { "ValueError", "TypeError" } # {}

\* A character XML 1.0 does not allow: a control character other than tab,
\* line feed and carriage return.
has_control_char(text) ==
    \E i \in 1..Len(text) : text[i] < 32 /\ text[i] \notin { 9, 10, 13 }

\* A lone surrogate, which UTF-8 cannot encode.
has_surrogate(text) ==
    \E i \in 1..Len(text) : text[i] >= 55296 /\ text[i] <= 57343

\* The texts of a tree.
tree_texts(folders) ==
    { folders[i].name : i \in 1..Len(folders) }
    \cup UNION { { folders[i].children[j].name : j \in 1..Len(folders[i].children) }
                 \cup { folders[i].children[j].description
                        : j \in 1..Len(folders[i].children) }
                 : i \in 1..Len(folders) }

\* What minidom.parseString(xml_string).toprettyxml() does on the serialized
\* tree: "ok" or the exception it raises.
pretty_outcome(folders) ==
    IF \E t \in tree_texts(folders) : has_surrogate(t) THEN "UnicodeEncodeError"
    ELSE IF \E t \in tree_texts(folders) : has_control_char(t) THEN "ExpatError"
    ELSE "ok"

\* ------------------------------------------------------------------ scan

\* except (IOError, OSError) around exifread.process_file(open(...)).
read_catches(exc) == "OSError" \in exception_classes(exc)

\* except (KeyError, AttributeError, IndexError) around the GPS tags.
gps_catches(exc) ==
    exception_classes(exc) \cap { "KeyError", "AttributeError", "IndexError" } # {}

\* float(ratio.num) / float(ratio.den), in ten-thousandths of `unit`
\* (1 for degrees, 60 for minutes, 3600 for seconds).
ratio_value(ratio, unit) == (10000 * ratio[1]) \div (unit * ratio[2])

\* self._convert_to_degress(ratio): d + (m / 60.0) + (s / 3600.0), or the
\* ZeroDivisionError of a denominator 0.
convert_to_degress(ratio) ==
    IF \E i \in 1..3 : ratio[i][2] = 0
    THEN [ raised |-> "ZeroDivisionError", value |-> 0 ]
    ELSE [ raised |-> "none",
           value |-> ratio_value(ratio[1], 1) + ratio_value(ratio[2], 60)
                     + ratio_value(ratio[3], 3600) ]

\* The second try block of the loop of scan_folder on the tags of a file:
\* the latitude and longitude, negated for a reference other than "N" / "E",
\* or what is raised.
gps_of(tags) ==
    IF "GPSLatitude" \notin DOMAIN tags THEN [ raised |-> "KeyError" ]
    ELSE IF convert_to_degress(tags.GPSLatitude).raised # "none"
    THEN [ raised |-> convert_to_degress(tags.GPSLatitude).raised ]
    ELSE IF "GPSLatitudeRef" \notin DOMAIN tags THEN [ raised |-> "KeyError" ]
    ELSE IF "GPSLongitude" \notin DOMAIN tags THEN [ raised |-> "KeyError" ]
    ELSE IF convert_to_degress(tags.GPSLongitude).raised # "none"
    THEN [ raised |-> convert_to_degress(tags.GPSLongitude).raised ]
    ELSE IF "GPSLongitudeRef" \notin DOMAIN tags THEN [ raised |-> "KeyError" ]
    ELSE [ raised |-> "none",
           my_lat |-> IF tags.GPSLatitudeRef # 78
                      THEN - convert_to_degress(tags.GPSLatitude).value
                      ELSE convert_to_degress(tags.GPSLatitude).value,
           my_lon |-> IF tags.GPSLongitudeRef # 69
                      THEN - convert_to_degress(tags.GPSLongitude).value
                      ELSE convert_to_degress(tags.GPSLongitude).value ]

\* str(my_file) for a file of the folder.
file_path(folder, my_file) == folder \o <<47>> \o my_file.name

\* The dict _add_placemark appends for a file.
scanned_placemark(g, folder, my_file) ==
    [ Latitude |-> g.my_lat, Longitude |-> g.my_lon,
      Name |-> file_path(folder, my_file), Folder |-> folder, Export |-> "unset" ]

\* not f.name.startswith("._")
is_scanned(my_file) ==
    ~ ( Len(my_file.name) >= 2 /\ my_file.name[1] = 46 /\ my_file.name[2] = 95 )

\* The loop of scan_folder of kml.py from position k of file_list on: the
\* dicts appended, nb_files, and what the loop raises.
RECURSIVE scan_loop(_, _, _, _, _)
scan_loop(file_list, k, folder, placemarks, nb_files) ==
    IF k > Len(file_list)
    THEN [ placemarks |-> placemarks, nb_files |-> nb_files, raised |-> "none" ]
    ELSE LET my_file == file_list[k]
         IN  IF my_file.read # "ok"
             THEN IF read_catches(my_file.read)
                  THEN scan_loop(file_list, k + 1, folder, placemarks, nb_files)
                  ELSE [ placemarks |-> placemarks, nb_files |-> nb_files,
                         raised |-> my_file.read ]
             ELSE LET g == gps_of(my_file.tags)
                  IN  IF g.raised = "none"
                      THEN scan_loop(file_list, k + 1, folder,
                                     Append(placemarks,
                                            scanned_placemark(g, folder, my_file)),
                                     nb_files + 1)
                      ELSE IF gps_catches(g.raised)
                      THEN scan_loop(file_list, k + 1, folder, placemarks, nb_files)
                      ELSE [ placemarks |-> placemarks, nb_files |-> nb_files,
                             raised |-> g.raised ]

\* scan_folder of kml.py on the files the three globs find in the folder.
scan_folder_on(folder, found) ==
    scan_loop(SelectSeq(found, is_scanned), 1, folder, <<>>, 0)

\* The loop of ScanFolder of KML.py from position k of file_list on.  tags is
\* the local variable of that name: it is bound by the first file that is
\* read and keeps the tags of the file read last; both except clauses catch
\* Exception and neither leaves the iteration, so the second try runs for
\* every file, on the tags of an earlier file after a failed read, and
\* raises (and catches) NameError while tags is unbound.
RECURSIVE ScanFolder_loop(_, _, _, _, _, _)
ScanFolder_loop(file_list, k, folder, placemarks, nb_files, tags) ==
    IF k > Len(file_list)
    THEN [ placemarks |-> placemarks, nb_files |-> nb_files, raised |-> "none" ]
    ELSE LET my_file == file_list[k]
             now == IF my_file.read = "ok"
                    THEN [ bound |-> TRUE, value |-> my_file.tags ]
                    ELSE tags
             g == IF now.bound THEN gps_of(now.value) ELSE [ raised |-> "NameError" ]
         IN  IF g.raised = "none"
             THEN ScanFolder_loop(file_list, k + 1, folder,
                                  Append(placemarks,
                                         scanned_placemark(g, folder, my_file)),
                                  nb_files + 1, now)
             ELSE ScanFolder_loop(file_list, k + 1, folder, placemarks, nb_files, now)

\* ScanFolder of KML.py on the files the three globs find in the folder.
ScanFolder_on(folder, found) ==
    ScanFolder_loop(found, 1, folder, <<>>, 0, [ bound |-> FALSE, value |-> <<>> ])

\* ------------------------------------------------------------------ driver

\* text.lower() on ASCII letters.
lower(text) ==
    [ i \in 1..Len(text) |-> IF text[i] \in 65..90 THEN text[i] + 32 ELSE text[i] ]

\* text.rfind(ch), counted from 1; 0 when ch does not occur.
RECURSIVE rfind(_, _)
rfind(text, ch) ==
    IF text = <<>> THEN 0
    ELSE IF text[Len(text)] = ch THEN Len(text)
    ELSE rfind(SubSeq(text, 1, Len(text) - 1), ch)

\* os.path.splitext(p) on a POSIX path: <<root, ext>>.  The extension starts
\* at the last "." of the last component, unless only "." precede it there.
splitext(p) ==
    LET sep == rfind(p, 47)
        dot == rfind(p, 46)
    IN  IF dot > sep /\ \E i \in (sep + 1)..(dot - 1) : p[i] # 46
        THEN << SubSeq(p, 1, dot - 1), SubSeq(p, dot, Len(p)) >>
        ELSE << p, <<>> >>

\* Variant of enforces_extension: if ext == "".
enforces_extension_when_none(ext) == ext = <<>>

\* if ext.lower() != ".kml":
enforces_extension(ext) == lower(ext) # <<46, 107, 109, 108>>

\* The path the driver passes to save_kml_file for an output name that is
\* not empty.
enforced_kml_file_name(kml_file_name) ==
    IF enforces_extension(splitext(kml_file_name)[2])
    THEN splitext(kml_file_name)[1] \o <<46, 107, 109, 108>>
    ELSE kml_file_name

\* ------------------------------------------------------------------ methods

\* _reorder_placemarks on a list, a heap and a threshold: the sorted list,
\* then _filter_placemarks on it.
reorder_placemarks_on(list, h, min_distance) ==
    LET new_list == sorted(h, list)
        filtered == filter_placemarks_on(new_list, h, min_distance)
    IN  [ list |-> new_list, heap |-> filtered.heap,
          export_count |-> filtered.export_count ]

\* The rest of _get_kml_string once _reorder_placemarks has returned r: the
\* tree it returns or the exception it raises.  self._placemark_list[0]
\* raises IndexError on an empty list.
kml_string_after_reorder(r) ==
    IF r.list = <<>>
    THEN [ list |-> r.list, heap |-> r.heap, raised |-> "IndexError",
           tree |-> <<>>, pretty |-> FALSE ]
    ELSE LET folders == document_folders(r.heap, r.list)
             outcome == pretty_outcome(folders)
         IN  IF outcome = "ok"
             THEN [ list |-> r.list, heap |-> r.heap, raised |-> "none",
                    tree |-> folders, pretty |-> TRUE ]
             ELSE IF pretty_catches(outcome)
             THEN [ list |-> r.list, heap |-> r.heap, raised |-> "none",
                    tree |-> folders, pretty |-> FALSE ]
             ELSE [ list |-> r.list, heap |-> r.heap, raised |-> outcome,
                    tree |-> <<>>, pretty |-> FALSE ]

\* Variant of get_kml_string_on: the document is built from the list and
\* the Export keys as they are, self._reorder_placemarks() is not called.
get_kml_string_on_without_reorder(list, h, min_distance) ==
    kml_string_after_reorder([ list |-> list, heap |-> h, export_count |-> -1 ])

\* _get_kml_string on a list, a heap and a threshold: the list and the heap
\* it leaves, and what it returns or raises.
get_kml_string_on(list, h, min_distance) ==
    kml_string_after_reorder(reorder_placemarks_on(list, h, min_distance))

\* What open(path, "w", encoding="utf-8") and write(kml_string) do when the
\* file system answers with outcome: text with a lone surrogate cannot be
\* encoded.
write_outcome(folders, outcome) ==
    IF outcome = "ok" /\ (\E t \in tree_texts(folders) : has_surrogate(t))
    THEN "UnicodeEncodeError"
    ELSE outcome

\* ------------------------------------------------------------------ actions

\* The driver script before its first statement on my_kml: no file imported,
\* no folder scanned, no output path yet.
driver_start ==
    [ pc |-> "scan", nb_files |-> 0, scanned |-> 0, supplied |-> <<>>,
      kml_file_name |-> <<>>, map_name |-> <<85, 110, 110, 97, 109, 101, 100>>,
      file_saved |-> "none" ]

\* A Kml object as __init__ leaves it: it has no _placemark_list and no
\* min_distance_between_placemarks_in_meters of its own; the list is read
\* from the class, and the threshold is the class's 0.
new_kml ==
    [ has_own_list |-> FALSE, own_placemark_list |-> <<>>, min_distance |-> 0 ]

\* The module is loaded and one Kml object has been constructed.
Init ==
    /\ heap = <<>>
    /\ class_placemark_list = <<>>
    /\ instances = << new_kml >>
    /\ last = [ NoCall EXCEPT !.op = "__init__", !.self = 1 ]
    /\ driver = driver_start

\* Kml(map_name): one more object.
Kml_init ==
    /\ Len(instances) < MaxInstances
    /\ instances' = Append(instances, new_kml)
    /\ last' = [ NoCall EXCEPT !.op = "__init__", !.self = Len(instances) + 1 ]
    /\ UNCHANGED <<heap, class_placemark_list, driver>>

\* self._add_placemark(latitude, longitude, name, folder): a new dict is
\* appended to the list self._placemark_list names.
add_placemark(self, latitude, longitude, name, folder) ==
    /\ Len(heap) < MaxPlacemarks
    /\ heap' = Append(heap, [ Latitude |-> latitude, Longitude |-> longitude,
                              Name |-> name, Folder |-> folder, Export |-> "unset" ])
    /\ IF instances[self].has_own_list
       THEN /\ instances' = [ instances EXCEPT ![self].own_placemark_list =
                                  Append(@, Len(heap) + 1) ]
            /\ UNCHANGED class_placemark_list
       ELSE /\ class_placemark_list' = Append(class_placemark_list, Len(heap) + 1)
            /\ UNCHANGED instances
    /\ last' = [ NoCall EXCEPT !.op = "_add_placemark", !.self = self ]

\* self.min_distance_between_placemarks_in_meters = t
set_min_distance(self, t) ==
    /\ instances' = [ instances EXCEPT ![self].min_distance = t ]
    /\ last' = [ NoCall EXCEPT !.op = "set_min_distance", !.self = self ]
    /\ UNCHANGED <<heap, class_placemark_list>>

\* self._reorder_placemarks()
reorder_placemarks(self) ==
    \E r \in { reorder_placemarks_on(placemark_list(self), heap,
                                   min_distance_between_placemarks_in_meters(self)) } :
        /\ instances' = [ instances EXCEPT ![self].has_own_list = TRUE,
                                           ![self].own_placemark_list = r.list ]
        /\ heap' = r.heap
        /\ last' = [ NoCall EXCEPT !.op = "_reorder_placemarks", !.self = self,
                                   !.before = placemark_list(self) ]
        /\ UNCHANGED class_placemark_list

\* self._filter_placemarks()
filter_placemarks(self) ==
    \E f \in { filter_placemarks_on(placemark_list(self), heap,
                                  min_distance_between_placemarks_in_meters(self)) } :
        /\ heap' = f.heap
        /\ last' =
             IF last.op = "_filter_placemarks" /\ last.self = self
             THEN [ NoCall EXCEPT !.op = "_filter_placemarks", !.self = self,
                                  !.export_count = f.export_count,
                                  !.again = TRUE,
                                  !.flags_before = export_flags(placemark_list(self), heap),
                                  !.count_before = last.export_count ]
             ELSE [ NoCall EXCEPT !.op = "_filter_placemarks", !.self = self,
                                  !.export_count = f.export_count ]
        /\ UNCHANGED <<class_placemark_list, instances>>

\* self._get_kml_string()
get_kml_string(self) ==
    \E g \in { get_kml_string_on(placemark_list(self), heap,
                               min_distance_between_placemarks_in_meters(self)) } :
        /\ instances' = [ instances EXCEPT ![self].has_own_list = TRUE,
                                           ![self].own_placemark_list = g.list ]
        /\ heap' = g.heap
        /\ last' = [ NoCall EXCEPT !.op = "_get_kml_string", !.self = self,
                                   !.before = placemark_list(self),
                                   !.raised = g.raised, !.tree = g.tree,
                                   !.pretty = g.pretty ]
        /\ UNCHANGED class_placemark_list

\* self.save_kml_file(path), the file system answering the write with outcome.
save_kml_file(self, outcome) ==
    \E g \in { get_kml_string_on(placemark_list(self), heap,
                               min_distance_between_placemarks_in_meters(self)) } :
      \E w \in { write_outcome(g.tree, outcome) } :
        /\ instances' = [ instances EXCEPT ![self].has_own_list = TRUE,
                                           ![self].own_placemark_list = g.list ]
        /\ heap' = g.heap
        /\ last' =
             IF g.raised # "none"
             THEN [ NoCall EXCEPT !.op = "save_kml_file", !.self = self,
                                  !.before = placemark_list(self),
                                  !.raised = g.raised ]
             ELSE [ NoCall EXCEPT !.op = "save_kml_file", !.self = self,
                                  !.before = placemark_list(self),
                                  !.tree = g.tree, !.pretty = g.pretty,
                                  !.write = w,
                                  !.written = (w = "ok"),
                                  !.saved = IF w = "ok" THEN "True"
                                            ELSE IF save_catches(w) THEN "False"
                                            ELSE "none",
                                  !.raised = IF w = "ok" \/ save_catches(w)
                                             THEN "none" ELSE w ]
        /\ UNCHANGED class_placemark_list

\* A scan of a folder by an object: the dicts of r are appended, in order, to
\* the list self._placemark_list names, also when r ends in an exception.
scan_call(self, op, folder, found, r) ==
    /\ Len(heap) + Len(r.placemarks) <= MaxPlacemarks
    /\ heap' = heap \o r.placemarks
    /\ IF instances[self].has_own_list
       THEN /\ instances' = [ instances EXCEPT ![self].own_placemark_list =
                                  @ \o [ i \in 1..Len(r.placemarks) |-> Len(heap) + i ] ]
            /\ UNCHANGED class_placemark_list
       ELSE /\ class_placemark_list' =
                  class_placemark_list
                  \o [ i \in 1..Len(r.placemarks) |-> Len(heap) + i ]
            /\ UNCHANGED instances
    /\ last' = [ NoCall EXCEPT !.op = op, !.self = self,
                               !.before = placemark_list(self),
                               !.raised = r.raised,
                               !.nb_files = IF r.raised = "none" THEN r.nb_files ELSE -1,
                               !.folder = folder, !.found = found ]

\* self.scan_folder(folder), the globs finding the files found.
scan_folder(self, folder, found) ==
    \E r \in { scan_folder_on(folder, found) } :
        scan_call(self, "scan_folder", folder, found, r)

\* self.ScanFolder(folder) of the class KML of KML.py, which keeps its
\* placemarks in the same attributes as Kml.
ScanFolder(self, folder, found) ==
    \E r \in { ScanFolder_on(folder, found) } :
        scan_call(self, "ScanFolder", folder, found, r)

\* A call of a method of a constructed object, the arguments of
\* _add_placemark drawn from the given sets.
Call(coordinates, names, folders) ==
    \/ \E self \in 1..Len(instances), c \in coordinates,
          name \in names, folder \in folders :
           add_placemark(self, c[1], c[2], name, folder) /\ UNCHANGED driver
    \/ \E self \in 1..Len(instances), t \in Thresholds :
           set_min_distance(self, t) /\ UNCHANGED driver
    \/ \E self \in 1..Len(instances) : reorder_placemarks(self) /\ UNCHANGED driver
    \/ \E self \in 1..Len(instances) : filter_placemarks(self) /\ UNCHANGED driver
    \/ \E self \in 1..Len(instances) : get_kml_string(self) /\ UNCHANGED driver
    \/ \E self \in 1..Len(instances), outcome \in WriteOutcomes :
           save_kml_file(self, outcome) /\ UNCHANGED driver

\* One Kml object, as in the driver: every method, in any order, on
\* placemarks of every coordinate and folder.
Next == Call(Coordinates, { NamedFile }, Folders)

Spec == Init /\ [][Next]_vars

\* Several Kml objects, constructed at any time, on placemarks of one place,
\* name and folder, which differ in identity only.
NextInstances ==
    \/ Kml_init
    \/ Call({ <<455000, -735000>> }, { NamedFile }, { <<47, 65>> })

SpecInstances == Init /\ [][NextInstances]_vars

\* One Kml object on placemarks of one place that differ in name, names
\* that the XML formatter or the encoder refuses included.
NextText == Call({ <<455000, -735000>> }, TextNames, { <<47, 65>> })

SpecText == Init /\ [][NextText]_vars

\* One object that scans folders, with scan_folder of kml.py or with
\* ScanFolder of KML.py.
NextScan ==
    \/ \E folder \in Folders, found \in FoundLists :
           scan_folder(1, folder, found) /\ UNCHANGED driver
    \/ \E folder \in Folders, found \in FoundLists :
           ScanFolder(1, folder, found) /\ UNCHANGED driver

SpecScan == Init /\ [][NextScan]_vars

\* The loop of the driver over folder_list, one folder:
\* nb_files += my_kml.scan_folder(folder=foldername); an exception out of
\* scan_folder ends the script.
driver_scan_folder(folder, found) ==
    /\ driver.pc = "scan"
    /\ driver.scanned < MaxFolders
    /\ \E r \in { scan_folder_on(folder, found) } :
           /\ scan_call(1, "scan_folder", folder, found, r)
           /\ driver' = IF r.raised # "none"
                        THEN [ driver EXCEPT !.pc = "crashed" ]
                        ELSE [ driver EXCEPT !.nb_files = @ + r.nb_files,
                                             !.scanned = @ + 1 ]

\* The driver after the scans, with the output name of option -o (empty
\* when not given), the answer of the file dialog and the outcome of the
\* write.  sys.exit() when no file was imported or no name is given;
\* my_kml.min_distance_between_placemarks is assigned, an attribute the
\* class does not read; the extension is enforced, map_name set and
\* save_kml_file called.
driver_export(kml_file_name, dialog, outcome) ==
    /\ driver.pc = "scan"
    /\ \E asked \in { IF kml_file_name = <<>> THEN dialog ELSE kml_file_name } :
           IF driver.nb_files = 0 \/ asked = <<>>
           THEN /\ driver' = [ driver EXCEPT !.pc = "aborted" ]
                /\ UNCHANGED <<heap, class_placemark_list, instances, last>>
           ELSE /\ save_kml_file(1, outcome)
                /\ driver' = [ driver EXCEPT
                                 !.pc = IF last'.raised # "none"
                                        THEN "crashed" ELSE "exported",
                                 !.supplied = asked,
                                 !.kml_file_name = enforced_kml_file_name(asked),
                                 !.map_name = path_split(enforced_kml_file_name(asked))[2],
                                 !.file_saved = last'.saved ]

\* The driver script on one object: scans of folders, then the export.
NextDriver ==
    \/ \E found \in FoundLists : driver_scan_folder(<<47, 65>>, found)
    \/ \E kml_file_name \in OutputNames, dialog \in DialogNames,
          outcome \in WriteOutcomes :
           driver_export(kml_file_name, dialog, outcome)

SpecDriver == Init /\ [][NextDriver]_vars

\* ------------------------------------------------------------------ properties

\* The calls that end with _filter_placemarks having run over the list the
\* object is left with.
FilterCalls ==
    { "_filter_placemarks", "_reorder_placemarks", "_get_kml_string", "save_kml_file" }

\* The calls that run _reorder_placemarks.
ReorderCalls == { "_reorder_placemarks", "_get_kml_string", "save_kml_file" }

\* The store of the object of the last call, its threshold, and the dict at
\* a position of the store.
Store == placemark_list(last.self)

Threshold == min_distance_between_placemarks_in_meters(last.self)

Record(k) == heap[Store[k]]

Distance(j, k) ==
    distance_between_placemarks(Record(j).Latitude, Record(j).Longitude,
                                Record(k).Latitude, Record(k).Longitude)

\* C1: after _filter_placemarks, a record is flagged Export = False exactly
\* when an earlier record of the store that is flagged Export = True lies
\* closer than the threshold, whatever the folders of the two; every other
\* record is flagged Export = True.
C1_GreedyFlags ==
    last.op \in FilterCalls =>
        \A k \in 1..Len(Store) :
            /\ Record(k).Export \in { "True", "False" }
            /\ Record(k).Export = "False" <=>
                   \E j \in 1..(k - 1) :
                       /\ Record(j).Export = "True"
                       /\ Distance(k, j) < Threshold

\* A suppressed record that suppresses nothing, and a record suppressed by
\* a record of another folder.
C1_Witness ==
    /\ last.op = "_filter_placemarks"
    /\ Len(Store) = 3
    /\ Record(1).Export = "True"
    /\ Record(2).Export = "False"
    /\ Record(3).Export = "True"
    /\ Distance(3, 2) < Threshold
    /\ Record(1).Folder # Record(2).Folder

\* C2: after _filter_placemarks, two distinct records of the store that are
\* both flagged Export = True are at a distance of the threshold or more.
C2_ExportedApart ==
    last.op \in FilterCalls =>
        \A j, k \in 1..Len(Store) :
            ( /\ j # k
              /\ Record(j).Export = "True"
              /\ Record(k).Export = "True" )
            => Distance(k, j) >= Threshold

C2_Witness ==
    /\ last.op = "_filter_placemarks"
    /\ Threshold = 13
    /\ Len(Store) = 3
    /\ Record(1).Export = "True"
    /\ Record(2).Export = "True"
    /\ Record(3).Export = "False"

\* The position of a dict in a list.
IndexIn(list, id) == CHOOSE k \in 1..Len(list) : list[k] = id

\* C3: after _reorder_placemarks the store holds the dicts it held before,
\* sorted by Folder and then by Latitude, and dicts of equal Folder and
\* Latitude are in the order they were in before the call.
C3_StableSort ==
    last.op \in ReorderCalls =>
        /\ Len(Store) = Len(last.before)
        /\ { Store[k] : k \in 1..Len(Store) }
               = { last.before[k] : k \in 1..Len(last.before) }
        /\ \A j, k \in 1..Len(Store) :
               j < k =>
                   /\ \/ str_less(Record(j).Folder, Record(k).Folder)
                      \/ /\ Record(j).Folder = Record(k).Folder
                         /\ Record(j).Latitude <= Record(k).Latitude
                   /\ ( /\ Record(j).Folder = Record(k).Folder
                        /\ Record(j).Latitude = Record(k).Latitude )
                      => IndexIn(last.before, Store[j]) < IndexIn(last.before, Store[k])

\* A store that the sort changes and that holds two dicts of equal key.
C3_Witness ==
    /\ last.op = "_reorder_placemarks"
    /\ Len(Store) = 3
    /\ Store # last.before
    /\ \E j, k \in 1..3 :
           /\ j < k
           /\ Record(j).Folder = Record(k).Folder
           /\ Record(j).Latitude = Record(k).Latitude
           /\ Record(j).Longitude # Record(k).Longitude

\* The last call returned a document.
DocumentBuilt ==
    /\ last.op \in { "_get_kml_string", "save_kml_file" }
    /\ last.tree # <<>>

\* C4: the document holds one Folder element for each Folder value of the
\* store and no other, in ascending order of the name.
C4_OneFolderPerValue ==
    DocumentBuilt =>
        /\ { last.tree[i].name : i \in 1..Len(last.tree) }
               = { Record(k).Folder : k \in 1..Len(Store) }
        /\ \A i, j \in 1..Len(last.tree) :
               i < j => str_less(last.tree[i].name, last.tree[j].name)

\* Two folders, the dicts of one of them added before and after a dict of
\* the other.
C4_Witness ==
    /\ last.op = "_get_kml_string"
    /\ Len(last.tree) = 2
    /\ Len(last.before) = 3
    /\ heap[last.before[1]].Folder = heap[last.before[3]].Folder
    /\ heap[last.before[1]].Folder # heap[last.before[2]].Folder

\* The Placemark elements of a tree in document order, each with the name of
\* the Folder element it is a child of.
RECURSIVE PlacemarksOf(_)
PlacemarksOf(folders) ==
    IF folders = <<>> THEN <<>>
    ELSE [ j \in 1..Len(Head(folders).children) |->
             << Head(folders).name, Head(folders).children[j] >> ]
         \o PlacemarksOf(Tail(folders))

\* The dicts of the store flagged Export = True, in store order.
ExportedOfStore == SelectSeq(Store, LAMBDA id : heap[id].Export = "True")

\* C5: the Placemark elements of the document are, in store order, those of
\* the records flagged Export = True, one each, every one in the Folder
\* element named as the record's Folder; with threshold 0 there are as many
\* as records.
C5_PlacemarksAreExported ==
    DocumentBuilt =>
        /\ PlacemarksOf(last.tree)
               = [ k \in 1..Len(ExportedOfStore) |->
                     << heap[ExportedOfStore[k]].Folder,
                        placemark_element(heap[ExportedOfStore[k]]) >> ]
        /\ Threshold = 0 => Len(PlacemarksOf(last.tree)) = Len(Store)

\* A document of two folders from a store with a suppressed record.
C5_Witness ==
    /\ last.op = "_get_kml_string"
    /\ Len(last.tree) = 2
    /\ Len(Store) = 3
    /\ Len(PlacemarksOf(last.tree)) = 2

\* C6: building the document from an empty store signals an explicit error:
\* _get_kml_string does not fail with the IndexError of an unguarded
\* self._placemark_list[0], and save_kml_file returns False, raises nothing
\* and writes nothing.
C6_EmptyStoreExplicitError ==
    ( /\ last.op \in { "_get_kml_string", "save_kml_file" }
      /\ last.before = <<>> )
    => /\ last.raised # "IndexError"
       /\ last.tree = <<>>
       /\ ~ last.written
       /\ last.op = "save_kml_file" => ( last.raised = "none" /\ last.saved = "False" )

\* C7: save_kml_file returns True when the text was written and False when
\* the write failed for a missing directory, a permission or a full disk,
\* and the failure does not reach the caller.
C7_WriteFailureIsFalse ==
    ( last.op = "save_kml_file" /\ last.write # "none" ) =>
        /\ last.written => ( last.saved = "True" /\ last.raised = "none" )
        /\ last.write \in { "FileNotFoundError", "PermissionError", "OSError" }
               => ( last.saved = "False" /\ last.raised = "none" /\ ~ last.written )
        /\ last.saved = "True" => last.written

C7_Witness ==
    /\ last.op = "save_kml_file"
    /\ last.write = "FileNotFoundError"
    /\ last.saved = "False"
    /\ Len(Store) = 2

\* C8: the list of a new Kml object is empty, and a placemark added through
\* one object is not in the list of another object.
C8_InstancesOwnTheirLists ==
    /\ last.op = "__init__" => placemark_list(last.self) = <<>>
    /\ last.op = "_add_placemark" =>
           \A other \in 1..Len(instances) :
               other # last.self =>
                   \A k \in 1..Len(placemark_list(other)) :
                       placemark_list(other)[k] # Len(heap)

\* C9: with threshold 0, _filter_placemarks flags every record
\* Export = True and returns the number of records.
C9_ZeroThresholdKeepsAll ==
    ( last.op \in FilterCalls /\ Threshold = 0 ) =>
        /\ \A k \in 1..Len(Store) : Record(k).Export = "True"
        /\ last.op = "_filter_placemarks" => last.export_count = Len(Store)

\* Threshold 0 on a store holding the same coordinates twice.
C9_Witness ==
    /\ last.op = "_filter_placemarks"
    /\ Threshold = 0
    /\ Len(Store) = 3
    /\ Distance(1, 2) = 0
    /\ last.export_count = 3

\* C10: _filter_placemarks flags the first record of the store
\* Export = True, whatever the threshold.
C10_FirstIsExported ==
    ( last.op \in FilterCalls /\ Store # <<>> ) => Record(1).Export = "True"

\* A store of one record filtered with a threshold above 0.
C10_Witness ==
    /\ last.op = "_filter_placemarks"
    /\ Threshold = 13
    /\ Len(Store) = 1
    /\ Record(1).Export = "True"

\* C11: after _filter_placemarks, a record that is at exactly the threshold
\* from an earlier record flagged Export = True, and at the threshold or
\* more from every other one, is flagged Export = True.
C11_AtThresholdExported ==
    last.op \in FilterCalls =>
        \A k \in 1..Len(Store) :
            ( /\ \E j \in 1..(k - 1) :
                     /\ Record(j).Export = "True"
                     /\ Distance(k, j) = Threshold
              /\ \A j \in 1..(k - 1) :
                     Record(j).Export = "True" => ~ (Distance(k, j) < Threshold) )
            => Record(k).Export = "True"

\* A positive threshold, and a record kept at that distance from the first.
C11_Witness ==
    /\ last.op = "_filter_placemarks"
    /\ Threshold = 13
    /\ \E k \in 2..Len(Store) :
           /\ Record(1).Export = "True"
           /\ Record(k).Export = "True"
           /\ Distance(k, 1) = 13

\* A heap in which no dict has an Export key yet.
Unflagged(h) == [ id \in 1..Len(h) |-> [ h[id] EXCEPT !.Export = "unset" ] ]

\* C12: _filter_placemarks run again on the store and threshold of the run
\* before it leaves the Export flags and returns the count of that run; and
\* the flags and the count of every run are those of a run on the same
\* records in the same order, with the same threshold, that carry no Export
\* flag of an earlier run.
C12_FilterIdempotent ==
    last.op = "_filter_placemarks" =>
        /\ last.again =>
               /\ export_flags(Store, heap) = last.flags_before
               /\ last.export_count = last.count_before
        /\ \E fresh \in { filter_placemarks_on(Store, Unflagged(heap), Threshold) } :
               /\ export_flags(Store, heap) = export_flags(Store, fresh.heap)
               /\ last.export_count = fresh.export_count

\* A second run in a row over a store of three with a suppressed record.
C12_Witness ==
    /\ last.op = "_filter_placemarks"
    /\ last.again
    /\ Len(Store) = 3
    /\ \E k \in 1..3 : Record(k).Export = "False"

\* C13: a Folder value of the store all of whose records are flagged
\* Export = False has its Folder element in the document, with the value as
\* name and no Placemark child.
C13_EmptyFolderEmitted ==
    DocumentBuilt =>
        \A k \in 1..Len(Store) :
            ( \A j \in 1..Len(Store) :
                  Record(j).Folder = Record(k).Folder => Record(j).Export = "False" )
            => \E i \in 1..Len(last.tree) :
                   /\ last.tree[i].name = Record(k).Folder
                   /\ last.tree[i].children = <<>>

\* A document of two folders, the second with two records and no Placemark.
C13_Witness ==
    /\ last.op = "_get_kml_string"
    /\ Len(Store) = 3
    /\ Len(last.tree) = 2
    /\ Len(last.tree[1].children) = 1
    /\ last.tree[2].children = <<>>
    /\ Record(2).Folder = last.tree[2].name
    /\ Record(3).Folder = last.tree[2].name

\* The number a text of decimal digits writes.
RECURSIVE DigitsValue(_)
DigitsValue(ds) ==
    IF ds = <<>> THEN 0
    ELSE 10 * DigitsValue(SubSeq(ds, 1, Len(ds) - 1)) + (ds[Len(ds)] - 48)

\* 10 to the power n.
RECURSIVE Pow10(_)
Pow10(n) == IF n = 0 THEN 1 ELSE 10 * Pow10(n - 1)

\* The number, in ten-thousandths, that a decimal text of at most four
\* decimals writes; -1000000000 for a text that is no such number.
ReadDecimal(text) ==
    LET neg  == text # <<>> /\ text[1] = 45
        body == IF neg THEN Tail(text) ELSE text
        dots == { n \in 1..Len(body) : body[n] = 46 }
    IN  IF \/ Cardinality(dots) # 1
           \/ \E n \in 1..Len(body) : body[n] # 46 /\ body[n] \notin 48..57
        THEN -1000000000
        ELSE LET dot  == CHOOSE n \in dots : TRUE
                 int  == SubSeq(body, 1, dot - 1)
                 frac == SubSeq(body, dot + 1, Len(body))
             IN  IF int = <<>> \/ frac = <<>> \/ Len(frac) > 4
                 THEN -1000000000
                 ELSE (IF neg THEN -1 ELSE 1)
                      * (DigitsValue(int) * 10000
                         + DigitsValue(frac) * Pow10(4 - Len(frac)))

\* C14: the Placemark elements of the document are those of the exported
\* records, in store order, and the coordinates text of each is one decimal
\* number, a comma and one decimal number, the first reading back as the
\* Longitude of the record and the second as its Latitude, both in full; the
\* text for latitude 45.5 and longitude -73.5 is "-73.5,45.5".
C14_CoordinatesText ==
    DocumentBuilt =>
        /\ Len(PlacemarksOf(last.tree)) = Len(ExportedOfStore)
        /\ \A i \in 1..Len(ExportedOfStore) :
               LET text   == PlacemarksOf(last.tree)[i][2].coordinates
                   record == heap[ExportedOfStore[i]]
                   commas == { n \in 1..Len(text) : text[n] = 44 }
               IN  /\ Cardinality(commas) = 1
                   /\ \A n \in commas :
                          /\ ReadDecimal(SubSeq(text, 1, n - 1)) = record.Longitude
                          /\ ReadDecimal(SubSeq(text, n + 1, Len(text))) = record.Latitude
                   /\ ( record.Latitude = 455000 /\ record.Longitude = -735000 )
                      => text = << 45, 55, 51, 46, 53, 44, 52, 53, 46, 53 >>

\* A document with the Placemark of (45.5, -73.5) and the Placemark of a
\* record of four decimals, (45.5001, -73.4999).
C14_Witness ==
    /\ last.op = "_get_kml_string"
    /\ \E i, j \in 1..Len(PlacemarksOf(last.tree)) :
           /\ PlacemarksOf(last.tree)[i][2].coordinates
                  = << 45, 55, 51, 46, 53, 44, 52, 53, 46, 53 >>
           /\ PlacemarksOf(last.tree)[j][2].coordinates
                  = << 45, 55, 51, 46, 52, 57, 57, 57, 44, 52, 53, 46, 53, 48, 48, 49 >>

\* C15: a Placemark of the document has a name child and a description child
\* exactly when the Name of its record is not empty, and a Point child in
\* both cases; the name text is what follows the last "/" of Name, and the
\* description text is what precedes that "/", or the "/" itself when
\* nothing precedes it.
C15_NameAndDescription ==
    DocumentBuilt =>
        /\ Len(PlacemarksOf(last.tree)) = Len(ExportedOfStore)
        /\ \A i \in 1..Len(ExportedOfStore) :
               LET element == PlacemarksOf(last.tree)[i][2]
                   tags    == { element.children[n] : n \in 1..Len(element.children) }
                   Name    == heap[ExportedOfStore[i]].Name
               IN  /\ "Point" \in tags
                   /\ "name" \in tags <=> Name # <<>>
                   /\ "description" \in tags <=> Name # <<>>
                   /\ Name # <<>> =>
                          /\ \A n \in 1..Len(element.name) : element.name[n] # 47
                          /\ \/ Name = element.description \o <<47>> \o element.name
                             \/ /\ Name = element.description \o element.name
                                /\ element.description \in { <<>>, <<47>> }

\* A document with a Placemark of a record without Name and the Placemark
\* of "/p/f", named "f" and described "/p".
C15_Witness ==
    /\ last.op = "_get_kml_string"
    /\ \E i, j \in 1..Len(PlacemarksOf(last.tree)) :
           /\ PlacemarksOf(last.tree)[i][2].children = << "Point" >>
           /\ heap[ExportedOfStore[i]].Name = <<>>
           /\ PlacemarksOf(last.tree)[j][2].children = << "name", "description", "Point" >>
           /\ PlacemarksOf(last.tree)[j][2].name = <<102>>
           /\ PlacemarksOf(last.tree)[j][2].description = <<47, 112>>

\* The document of the last call holds a text that the XML formatter
\* refuses: the Name of an exported record has a control character or a lone
\* surrogate.
FormatterFails ==
    /\ last.op \in { "_get_kml_string", "save_kml_file" }
    /\ \E k \in 1..Len(Store) :
           /\ Record(k).Export = "True"
           /\ \E n \in 1..Len(Record(k).Name) :
                  \/ Record(k).Name[n] < 32
                  \/ Record(k).Name[n] \in 55296..57343

\* C16: when the XML formatter fails on the generated tree, whatever the
\* failure, _get_kml_string does not raise and hands on the unformatted
\* serialization of the tree, to its caller or to the write of
\* save_kml_file.
C16_PrettyFailureRecovered ==
    FormatterFails =>
        /\ last.tree # <<>>
        /\ ~ last.pretty

\* The last four characters of a text, or the whole of a shorter text.
LastFour(text) ==
    SubSeq(text, IF Len(text) > 4 THEN Len(text) - 3 ELSE 1, Len(text))

\* ASCII capitals of a text made small.
SmallLetters(text) ==
    [ i \in 1..Len(text) |-> IF text[i] \in 65..90 THEN text[i] + 32 ELSE text[i] ]

\* The driver has called save_kml_file.
SaveCalledByDriver == driver.pc \in { "exported", "crashed" } /\ driver.supplied # <<>>

OwnGpsFiles ==
    SelectSeq(last.found,
              LAMBDA f : /\ f.read = "ok"
                         /\ { "GPSLatitude", "GPSLatitudeRef",
                              "GPSLongitude", "GPSLongitudeRef" } \subseteq DOMAIN f.tags
                         /\ \A i \in 1..3 : /\ f.tags.GPSLatitude[i][2] # 0
                                            /\ f.tags.GPSLongitude[i][2] # 0)

\* The dicts the last scan appended, in order.
Appended == SubSeq(Store, Len(last.before) + 1, Len(Store))

\* The scans.
ScanCalls == { "scan_folder", "ScanFolder" }

\* C19: a scan appends placemarks at the end of the store and nowhere else;
\* each is named after a file found whose own EXIF data was read and holds
\* the GPS tags, at most one for a file, in the order found; and the value
\* returned is the number of placemarks appended.
C19_ScanAppendsOwnGpsOnly ==
    last.op \in ScanCalls =>
        /\ SubSeq(Store, 1, Len(last.before)) = last.before
        /\ \E pick \in [ 1..Len(Appended) -> 1..Len(OwnGpsFiles) ] :
               /\ \A i, j \in 1..Len(Appended) : i < j => pick[i] < pick[j]
               /\ \A i \in 1..Len(Appended) :
                      heap[Appended[i]].Name
                          = last.folder \o <<47>> \o OwnGpsFiles[pick[i]].name
        /\ last.raised = "none" => last.nb_files = Len(Appended)

\* What C19 says, of scan_folder of kml.py alone, with the coordinates: the
\* placemarks appended are exactly those of the files found that are not
\* named "._...", were read and hold the GPS tags, up to the first file
\* whose tags raise ZeroDivisionError.
ScanFolderOfKmlPy ==
    last.op = "scan_folder" =>
        /\ SubSeq(Store, 1, Len(last.before)) = last.before
        /\ \A i \in 1..Len(Appended) :
               \E f \in { OwnGpsFiles[n] : n \in 1..Len(OwnGpsFiles) } :
                   /\ heap[Appended[i]].Name = last.folder \o <<47>> \o f.name
                   /\ heap[Appended[i]].Latitude
                          = IF f.tags = TagsMontreal THEN 455000 ELSE 455001
                   /\ heap[Appended[i]].Longitude
                          = IF f.tags = TagsMontreal THEN -735000 ELSE -734999
        /\ last.raised = "none" =>
               /\ last.nb_files = Len(Appended)
               /\ Len(Appended)
                      = Len(SelectSeq(OwnGpsFiles, LAMBDA f : f.name[1] # 46))

\* C20: when _get_kml_string or save_kml_file has built its document, after
\* any calls of _add_placemark and any changes of the threshold, the store
\* holds the records it held at the call, in ascending order of Folder and,
\* within a folder, of Latitude; every record has an Export flag; a record is
\* flagged False exactly when an earlier record flagged True is closer than
\* the threshold the object has now; and the document has one Placemark for
\* each record flagged True.
C20_DocumentFromFreshOrderAndFlags ==
    DocumentBuilt =>
        /\ { Store[k] : k \in 1..Len(Store) }
               = { last.before[k] : k \in 1..Len(last.before) }
        /\ \A k \in 1..(Len(Store) - 1) :
               \/ str_less(Record(k).Folder, Record(k + 1).Folder)
               \/ /\ Record(k).Folder = Record(k + 1).Folder
                  /\ Record(k).Latitude <= Record(k + 1).Latitude
        /\ \A k \in 1..Len(Store) :
               /\ Record(k).Export # "unset"
               /\ Record(k).Export = "True" <=>
                      \A j \in 1..(k - 1) :
                          Record(j).Export = "True" => Distance(j, k) >= Threshold
        /\ Len(PlacemarksOf(last.tree))
               = Cardinality({ k \in 1..Len(Store) : Record(k).Export = "True" })

\* A file written from a store of three that the call had to sort and in
\* which it suppressed a record.
C20_Witness ==
    /\ last.op = "save_kml_file"
    /\ last.written
    /\ Threshold = 13
    /\ Len(Store) = 3
    /\ Store # last.before
    /\ \E k \in 1..3 : Record(k).Export = "False"

\* The number of positions of a list that hold a dict.
Occurrences(list, id) == Cardinality({ k \in 1..Len(list) : list[k] = id })

\* What a step that is a call of _reorder_placemarks or _filter_placemarks
\* by an object leaves alone.
SortOrFilterFrame(self) ==
    /\ Len(heap') = Len(heap)
    /\ \A id \in 1..Len(heap) :
           /\ DOMAIN heap'[id] = DOMAIN heap[id]
           /\ heap'[id].Latitude = heap[id].Latitude
           /\ heap'[id].Longitude = heap[id].Longitude
           /\ heap'[id].Name = heap[id].Name
           /\ heap'[id].Folder = heap[id].Folder
    /\ Len(placemark_list(self)') = Len(placemark_list(self))
    /\ \A id \in 1..Len(heap) :
           Occurrences(placemark_list(self)', id) = Occurrences(placemark_list(self), id)
    /\ last'.op = "_filter_placemarks" => placemark_list(self)' = placemark_list(self)

====
